---- MODULE Spec2Model ----
(***************************************************************************)
(* Agent Evaluator API (src/main.py, src/schemas.py).                      *)
(*                                                                         *)
(* The state is the "evaluation" collection of the document store, the    *)
(* ObjectId generator, and for every POST /evaluate request in flight the  *)
(* position of its handler and the handler's local variables.  One action  *)
(* is one step of a handler between two blocking I/O calls (a store call   *)
(* or one GET attempt of fetch_with_retries); the two read endpoints make  *)
(* a single store call and are one action each.                            *)
(*                                                                         *)
(* Conventions.  An Optional value is a sequence: <<>> is None and <<v>>   *)
(* is the value v.  A text is represented by its length, the only thing    *)
(* dummy_deepeval reads.  A score is kept in hundredths (30 is 0.30).      *)
(* Durations are in tenths of a second (8 is 0.8s).                        *)
(***************************************************************************)
EXTENDS Integers, Sequences, FiniteSets, TLC

\* ------------------------------------------------------------------ bounds
MaxReqs == 2                  \* requests served in one behaviour
MaxAgentLen == 1310           \* longest agent card the scorer is given
MaxChatLen == 5               \* chat logs are this far from 0 and from 1000

Reqs == 1..MaxReqs

\* ---------------------------------------------------------------- optional
None == <<>>
Some(v) == <<v>>
IsSet(o) == o # <<>>
Val(o) == o[1]

Max(a, b) == IF a >= b THEN a ELSE b
Min(a, b) == IF a <= b THEN a ELSE b

\* -------------------------------------------------------------------- URLs
\* A URL as the client sends it: scheme and host ("" when missing).
Url(scheme, host) == [scheme |-> scheme, host |-> host]

\* pydantic HttpUrl: scheme http or https and a host.
HttpUrl(u) == u.scheme \in {"http", "https"} /\ u.host # ""

Lower(h) == IF h = "A" THEN "a" ELSE h

\* str(HttpUrl): the normalised URL text (host in lower case).
StrUrl(u) == [scheme |-> u.scheme, host |-> Lower(u.host)]

EvaluationRequest_AgentOnly(body) == HttpUrl(body.agent_card_url)

\* EvaluationRequest: agent_card_url is required, chat_url optional.
EvaluationRequest(body) ==
    /\ HttpUrl(body.agent_card_url)
    /\ (IsSet(body.chat_url) => HttpUrl(Val(body.chat_url)))

Body(agent_card_url, chat_url) ==
    [agent_card_url |-> agent_card_url, chat_url |-> chat_url]

Bodies ==
    { Body(Url("https", "A"), None),
      Body(Url("https", "A"), Some(Url("http", "c"))),
      Body(Url("", "a"),      None),
      Body(Url("https", "A"), Some(Url("ftp", "c"))),
      Body(Url("https", "A"), Some(Url("", "c"))) }

\* ------------------------------------------------------------ identifiers
OidLen == 24

NewObjectId_Shared(r) == 1

\* insert_one gives a document without _id a new ObjectId, unique to the
\* call; the model names it after the request that makes the call.
NewObjectId(r) == r

\* An id as text: its length, the kind of its characters and, for a hex
\* string, the ObjectId value it spells.
StrOid(oid) == [len |-> OidLen, chars |-> "lowerhex", key |-> oid]

\* ObjectId(text) succeeds on 24 hex digits of either case.
ObjectIdValid(s) == s.len = OidLen /\ s.chars \in {"lowerhex", "upperhex"}
ObjectId(s) == s.key

IdInputs ==
    { [len |-> OidLen,     chars |-> "lowerhex", key |-> 1],
      [len |-> OidLen,     chars |-> "upperhex", key |-> 2],
      [len |-> OidLen - 1, chars |-> "nonhex",   key |-> 1] }

\* ------------------------------------------------------------------ scorer
AgentTexts == {0, 130}
ChatTexts == {1007}

norm(v) == Max(0, Min(100, v))

dummy_deepeval_ChatNotWrapped(agent_card, chat_logs) ==
    LET base == Max(1, agent_card)
        chat_factor == IF IsSet(chat_logs) THEN Val(chat_logs) ELSE 0
    IN  [ mcp_compliance |->
            [ spec_alignment     |-> norm(base % 100),
              tools_schema_valid |-> norm((base \div 3) % 100),
              errors             |-> << >> ],
          safety |->
            [ toxicity    |-> norm((base + chat_factor) % 100),
              compliance  |-> norm((base \div 7 + chat_factor \div 5) % 100),
              harmfulness |-> norm((base \div 11) % 100) ],
          chatbot |->
            [ relevance   |-> norm((base \div 13 + chat_factor \div 3) % 100),
              helpfulness |-> norm((base \div 5) % 100),
              factuality  |-> norm((base \div 9) % 100),
              latency     |-> 100 + (base % 50) ] ]

dummy_deepeval(agent_card, chat_logs) ==
    LET base == Max(1, agent_card)
        chat_factor == (IF IsSet(chat_logs) /\ Val(chat_logs) # 0
                        THEN Val(chat_logs) ELSE 0) % 1000
    IN  [ mcp_compliance |->
            [ spec_alignment     |-> norm(base % 100),
              tools_schema_valid |-> norm((base \div 3) % 100),
              errors             |-> << >> ],
          safety |->
            [ toxicity    |-> norm((base + chat_factor) % 100),
              compliance  |-> norm((base \div 7 + chat_factor \div 5) % 100),
              harmfulness |-> norm((base \div 11) % 100) ],
          chatbot |->
            [ relevance   |-> norm((base \div 13 + chat_factor \div 3) % 100),
              helpfulness |-> norm((base \div 5) % 100),
              factuality  |-> norm((base \div 9) % 100),
              latency     |-> 100 + (base % 50) ] ]

\* ---------------------------------------------------------------- reporter
\* The report is the page's interpolated values; <<>> in a row is the
\* placeholder ('n/a', or the dash for a missing chat URL).
Get(group, key) == IF key \in DOMAIN group THEN Some(group[key]) ELSE None

render_html_report(evaluation) ==
    LET m      == IF IsSet(evaluation.metrics) THEN Val(evaluation.metrics)
                  ELSE [x \in {} |-> 0]
        grp(g) == IF g \in DOMAIN m THEN m[g] ELSE [x \in {} |-> 0]
        safety == grp("safety")
        mcp    == grp("mcp_compliance")
        bot    == grp("chatbot")
    IN  [ status         |-> evaluation.status,
          agent_card_url |-> evaluation.agent_card_url,
          chat_url       |-> evaluation.chat_url,
          rows |-> << Get(mcp, "spec_alignment"),
                      Get(mcp, "tools_schema_valid"),
                      Get(safety, "toxicity"),
                      Get(safety, "compliance"),
                      Get(safety, "harmfulness"),
                      Get(bot, "relevance"),
                      Get(bot, "helpfulness"),
                      Get(bot, "factuality"),
                      Get(bot, "latency") >> ]

\* ------------------------------------------------------------------- store
\* Evaluation(...).model_dump() with the schema's defaults.
Evaluation(agent_card_url, chat_url, status) ==
    [ agent_card_url |-> agent_card_url,
      chat_url       |-> chat_url,
      status         |-> status,
      metrics        |-> None,
      html_report    |-> None,
      error          |-> None ]

\* insert_one: a new document under a fresh _id.
InsertOne(coll, oid, doc) ==
    [k \in DOMAIN coll \cup {oid} |-> IF k = oid THEN doc ELSE coll[k]]

\* update_one({"_id": oid}, {"$set": fields}): only the named fields change.
UpdateOne(coll, oid, fields) ==
    IF oid \notin DOMAIN coll THEN coll
    ELSE [coll EXCEPT ![oid] =
            [f \in DOMAIN coll[oid] \cup DOMAIN fields |->
                IF f \in DOMAIN fields THEN fields[f] ELSE coll[oid][f]]]

\* The $set documents of the three update_one calls of evaluate().
Completed_WithoutReport(metrics, html) ==
    [status |-> "completed", metrics |-> Some(metrics)]

Completed(metrics, html) ==
    [status |-> "completed", metrics |-> Some(metrics), html_report |-> Some(html)]

FailedFetch_WithError == [status |-> "failed", error |-> Some("fetch failed")]

FailedFetch == [status |-> "failed"]

FailedOther_ErrorOnly(e) == [error |-> Some(e)]

FailedOther(e) == [status |-> "failed", error |-> Some(e)]

\* A store write returns, raises before the write took effect, or raises
\* after it took effect (the acknowledgement is lost or the write concern
\* times out): the driver's exception does not tell which.
WriteOutcomes == {"ok", "raise", "applied_raise"}
Applied(o) == o \in {"ok", "applied_raise"}
StoreErr(o) == IF o = "raise" THEN "AutoReconnect" ELSE "WriteConcernError"

\* ----------------------------------------------------------------- fetcher
max_retries == 3
backoff == 8
FetchErrs == {"timeout", "status 500"}

Sleep_Constant(a) == backoff

\* time.sleep(backoff * (2 ** attempt))
Sleep(a) == backoff * (2 ^ a)

\* --------------------------------------------------------------- responses
Response(status, detail, body) ==
    [status |-> status, detail |-> detail, body |-> body]
NoResponse == Response(0, None, None)
HTTPException(status, detail) == Response(status, Some(detail), None)
\* an exception the handler does not catch
ServerError == Response(500, Some(<<"Internal Server Error">>), None)
ValidationError == Response(422, Some(<<"validation error">>), None)

VARIABLES
    db,               \* TRUE when the store is configured (db is not None)
    store,            \* db["evaluation"]: _id -> document
    pc,               \* per request: position in its handler
    endpoint,         \* per request: the handler that serves it
    req,              \* per request: the body of POST /evaluate
    evaluation_id,    \* per request: the path parameter of a read
    inserted_id,      \* per request: inserted.inserted_id
    attempt,          \* per request: loop index of fetch_with_retries
    last_err,         \* per request: last_err of fetch_with_retries
    agent_card_text,  \* per request
    chat_text,        \* per request
    slept,            \* per request: the sleeps of fetch_with_retries
    exc,              \* per request: the exception being handled
    resp,             \* per request: the HTTP response
    calls             \* per request: the I/O calls made so far

vars == << db, store, pc, endpoint, req, evaluation_id, inserted_id,
           attempt, last_err, slept, agent_card_text, chat_text, exc, resp,
           calls >>

\* the local variables of evaluate() and fetch_with_retries()
locals == << inserted_id, attempt, last_err, slept, agent_card_text,
            chat_text, exc >>

Init ==
    /\ db \in BOOLEAN
    /\ store = [k \in {} |-> 0]
    /\ pc = [r \in Reqs |-> "idle"]
    /\ endpoint = [r \in Reqs |-> ""]
    /\ req = [r \in Reqs |-> None]
    /\ evaluation_id = [r \in Reqs |-> None]
    /\ inserted_id = [r \in Reqs |-> None]
    /\ attempt = [r \in Reqs |-> 0]
    /\ last_err = [r \in Reqs |-> None]
    /\ slept = [r \in Reqs |-> << >>]
    /\ agent_card_text = [r \in Reqs |-> None]
    /\ chat_text = [r \in Reqs |-> None]
    /\ exc = [r \in Reqs |-> None]
    /\ resp = [r \in Reqs |-> NoResponse]
    /\ calls = [r \in Reqs |-> {}]

\* The handler returns or raises: the response goes out, its frame is gone.
Finish(r, response) ==
    /\ pc' = [pc EXCEPT ![r] = "done"]
    /\ resp' = [resp EXCEPT ![r] = response]
    /\ attempt' = [attempt EXCEPT ![r] = 0]
    /\ last_err' = [last_err EXCEPT ![r] = None]
    /\ slept' = [slept EXCEPT ![r] = << >>]
    /\ agent_card_text' = [agent_card_text EXCEPT ![r] = None]
    /\ chat_text' = [chat_text EXCEPT ![r] = None]
    /\ exc' = [exc EXCEPT ![r] = None]
    /\ inserted_id' = [inserted_id EXCEPT ![r] = None]

Log(r, call) == calls' = [calls EXCEPT ![r] = @ \cup {call}]

\* POST /evaluate, up to and including insert_one (src/main.py 137-149).
\* The framework validates the body before it calls the handler.
Evaluate(r, body) ==
    /\ pc[r] = "idle"
    /\ endpoint' = [endpoint EXCEPT ![r] = "evaluate"]
    /\ req' = [req EXCEPT ![r] = Some(body)]
    /\ UNCHANGED << db, evaluation_id >>
    /\ IF ~EvaluationRequest(body)
       THEN /\ Finish(r, ValidationError)
            /\ UNCHANGED << store, calls >>
       ELSE IF ~db
       THEN /\ Finish(r, HTTPException(500, <<"Database not configured">>))
            /\ UNCHANGED << store, calls >>
       ELSE \E o \in WriteOutcomes :
            LET oid == NewObjectId(r)
                doc == Evaluation(StrUrl(body.agent_card_url),
                                  IF IsSet(body.chat_url)
                                  THEN Some(StrUrl(Val(body.chat_url)))
                                  ELSE None,
                                  "running")
            IN  /\ Log(r, <<"insert_one", oid>>)
                /\ store' = IF Applied(o) THEN InsertOne(store, oid, doc)
                            ELSE store
                /\ IF o = "ok"
                   THEN /\ inserted_id' = [inserted_id EXCEPT ![r] = Some(oid)]
                        /\ pc' = [pc EXCEPT ![r] = "fetch_agent"]
                        /\ UNCHANGED << resp, attempt, last_err, slept,
                                        agent_card_text, chat_text, exc >>
                   ELSE Finish(r, ServerError)

FetchUrl_ChatFirst(r) ==
    IF pc[r] = "fetch_agent" /\ ~IsSet(Val(req[r]).chat_url)
    THEN StrUrl(Val(req[r]).agent_card_url)
    ELSE StrUrl(Val(Val(req[r]).chat_url))

\* The URL the current fetch_with_retries call was given.
FetchUrl(r) ==
    IF pc[r] = "fetch_agent" THEN StrUrl(Val(req[r]).agent_card_url)
    ELSE StrUrl(Val(Val(req[r]).chat_url))

\* One iteration of the loop of fetch_with_retries that returns the body.
FetchSuccess(r, text) ==
    /\ pc[r] \in {"fetch_agent", "fetch_chat"}
    /\ Log(r, <<"get", FetchUrl(r)>>)
    /\ IF pc[r] = "fetch_agent"
       THEN /\ text \in AgentTexts
            /\ agent_card_text' = [agent_card_text EXCEPT ![r] = Some(text)]
            /\ pc' = [pc EXCEPT ![r] =
                        IF IsSet(Val(req[r]).chat_url) THEN "fetch_chat"
                        ELSE "score"]
            /\ UNCHANGED chat_text
       ELSE /\ text \in ChatTexts
            /\ chat_text' = [chat_text EXCEPT ![r] = Some(text)]
            /\ pc' = [pc EXCEPT ![r] = "score"]
            /\ UNCHANGED agent_card_text
    /\ attempt' = [attempt EXCEPT ![r] = 0]
    /\ last_err' = [last_err EXCEPT ![r] = None]
    /\ slept' = [slept EXCEPT ![r] = << >>]
    /\ UNCHANGED << db, store, endpoint, req, evaluation_id,
                    inserted_id, exc, resp >>

FetchFailure_FirstError(r, e) ==
    LET err == IF IsSet(last_err[r]) THEN Val(last_err[r]) ELSE e
    IN  /\ pc[r] \in {"fetch_agent", "fetch_chat"}
        /\ last_err' = [last_err EXCEPT ![r] = Some(err)]
        /\ Log(r, <<"get", FetchUrl(r)>>)
        /\ IF attempt[r] < max_retries - 1
           THEN /\ slept' = [slept EXCEPT ![r] = Append(@, Sleep(attempt[r]))]
                /\ attempt' = [attempt EXCEPT ![r] = @ + 1]
                /\ UNCHANGED << pc, exc >>
           ELSE /\ exc' = [exc EXCEPT ![r] =
                       Some(HTTPException(502, <<"Failed to fetch", FetchUrl(r), err>>))]
                /\ pc' = [pc EXCEPT ![r] = "except_http"]
                /\ UNCHANGED << attempt, slept >>
        /\ UNCHANGED << db, store, endpoint, req, evaluation_id,
                        inserted_id, agent_card_text, chat_text, resp >>

FetchFailure_SleepAfterLast(r, e) ==
    /\ pc[r] \in {"fetch_agent", "fetch_chat"}
    /\ last_err' = [last_err EXCEPT ![r] = Some(e)]
    /\ Log(r, <<"get", FetchUrl(r)>>)
    /\ slept' = [slept EXCEPT ![r] = Append(@, Sleep(attempt[r]))]
    /\ IF attempt[r] < max_retries - 1
       THEN /\ attempt' = [attempt EXCEPT ![r] = @ + 1]
            /\ UNCHANGED << pc, exc >>
       ELSE /\ exc' = [exc EXCEPT ![r] =
                   Some(HTTPException(502, <<"Failed to fetch", FetchUrl(r), e>>))]
            /\ pc' = [pc EXCEPT ![r] = "except_http"]
            /\ UNCHANGED attempt
    /\ UNCHANGED << db, store, endpoint, req, evaluation_id,
                    inserted_id, agent_card_text, chat_text, resp >>

\* One iteration that fails: sleep and go round, or leave the loop and raise.
FetchFailure(r, e) ==
    /\ pc[r] \in {"fetch_agent", "fetch_chat"}
    /\ last_err' = [last_err EXCEPT ![r] = Some(e)]
    /\ Log(r, <<"get", FetchUrl(r)>>)
    /\ IF attempt[r] < max_retries - 1
       THEN /\ slept' = [slept EXCEPT ![r] =
                          Append(@, Sleep(attempt[r]))]
            /\ attempt' = [attempt EXCEPT ![r] = @ + 1]
            /\ UNCHANGED << pc, exc >>
       ELSE /\ exc' = [exc EXCEPT ![r] =
                   Some(HTTPException(502, <<"Failed to fetch", FetchUrl(r), e>>))]
            /\ pc' = [pc EXCEPT ![r] = "except_http"]
            /\ UNCHANGED << attempt, slept >>
    /\ UNCHANGED << db, store, endpoint, req, evaluation_id,
                    inserted_id, agent_card_text, chat_text, resp >>

Score_WithoutChat(r) == dummy_deepeval(Val(agent_card_text[r]), None)

\* metrics = dummy_deepeval(agent_card_text, chat_text)
Score(r) == dummy_deepeval(Val(agent_card_text[r]), chat_text[r])

\* Score, render and the completing update_one (src/main.py 155-172).
Complete(r) ==
    /\ pc[r] = "score"
    /\ \E o \in WriteOutcomes :
        LET oid      == Val(inserted_id[r])
            body     == Val(req[r])
            metrics  == Score(r)
            temp_doc == [ agent_card_url |-> StrUrl(body.agent_card_url),
                          chat_url |-> IF IsSet(body.chat_url)
                                       THEN Some(StrUrl(Val(body.chat_url)))
                                       ELSE None,
                          status  |-> "completed",
                          metrics |-> Some(metrics) ]
            html     == render_html_report(temp_doc)
            updated  == Completed(metrics, html)
        IN  /\ Log(r, <<"update_one", oid>>)
            /\ store' = IF Applied(o) THEN UpdateOne(store, oid, updated)
                        ELSE store
            /\ IF o = "ok"
               THEN Finish(r, Response(200, None,
                               Some([ id      |-> StrOid(oid),
                                      status  |-> "completed",
                                      metrics |-> metrics ])))
               ELSE /\ exc' = [exc EXCEPT ![r] = Some(StoreErr(o))]
                    /\ pc' = [pc EXCEPT ![r] = "except_other"]
                    /\ UNCHANGED << resp, attempt, last_err, slept,
                                    agent_card_text, chat_text, inserted_id >>
    /\ UNCHANGED << db, endpoint, req, evaluation_id >>

\* except HTTPException: mark the record failed and re-raise (173-176).
\* An exception of the update replaces the one being handled.
ExceptHTTP(r) ==
    /\ pc[r] = "except_http"
    /\ \E o \in WriteOutcomes :
        LET oid     == Val(inserted_id[r])
            updated == FailedFetch
        IN  /\ Log(r, <<"update_one", oid>>)
            /\ store' = IF Applied(o) THEN UpdateOne(store, oid, updated)
                        ELSE store
            /\ Finish(r, IF o = "ok" THEN Val(exc[r]) ELSE ServerError)
    /\ UNCHANGED << db, endpoint, req, evaluation_id >>

\* except Exception as e: mark the record failed with str(e) and answer 500
\* (177-179).
ExceptOther(r) ==
    /\ pc[r] = "except_other"
    /\ \E o \in WriteOutcomes :
        LET oid     == Val(inserted_id[r])
            updated == FailedOther(Val(exc[r]))
        IN  /\ Log(r, <<"update_one", oid>>)
            /\ store' = IF Applied(o) THEN UpdateOne(store, oid, updated)
                        ELSE store
            /\ Finish(r, IF o = "ok"
                         THEN HTTPException(500, <<"Evaluation failed", Val(exc[r])>>)
                         ELSE ServerError)
    /\ UNCHANGED << db, endpoint, req, evaluation_id >>

Lookup_IdFirst(id) ==
    IF ~ObjectIdValid(id)
    THEN HTTPException(400, <<"Invalid evaluation id">>)
    ELSE IF ~db THEN HTTPException(500, <<"Database not configured">>)
    ELSE IF ObjectId(id) \notin DOMAIN store
    THEN HTTPException(404, <<"Evaluation not found">>)
    ELSE Response(200, None, Some(store[ObjectId(id)]))

Lookup_MissingAs400(id) ==
    IF ~db THEN HTTPException(500, <<"Database not configured">>)
    ELSE IF ~ObjectIdValid(id) \/ ObjectId(id) \notin DOMAIN store
    THEN HTTPException(400, <<"Invalid evaluation id">>)
    ELSE Response(200, None, Some(store[ObjectId(id)]))

\* The part the two read endpoints share: store check, ObjectId, find_one.
Lookup(id) ==
    IF ~db THEN HTTPException(500, <<"Database not configured">>)
    ELSE IF ~ObjectIdValid(id)
    THEN HTTPException(400, <<"Invalid evaluation id">>)
    ELSE IF ObjectId(id) \notin DOMAIN store
    THEN HTTPException(404, <<"Evaluation not found">>)
    ELSE Response(200, None, Some(store[ObjectId(id)]))

Served_WriteBack(r, name, id, response) ==
    /\ pc[r] = "idle"
    /\ endpoint' = [endpoint EXCEPT ![r] = name]
    /\ evaluation_id' = [evaluation_id EXCEPT ![r] = Some(id)]
    /\ calls' = [calls EXCEPT ![r] =
                    IF db /\ ObjectIdValid(id)
                    THEN {<<"find_one", ObjectId(id)>>} ELSE {}]
    /\ Finish(r, response)
    /\ store' = IF name = "get_evaluation_report" /\ response.status = 200
                THEN UpdateOne(store, ObjectId(id), [html_report |-> response.body])
                ELSE store
    /\ UNCHANGED << db, req >>

\* A read request: one find_one at most, then the response.
Served(r, name, id, response) ==
    /\ pc[r] = "idle"
    /\ endpoint' = [endpoint EXCEPT ![r] = name]
    /\ evaluation_id' = [evaluation_id EXCEPT ![r] = Some(id)]
    /\ calls' = [calls EXCEPT ![r] =
                    IF db /\ ObjectIdValid(id)
                    THEN {<<"find_one", ObjectId(id)>>} ELSE {}]
    /\ Finish(r, response)
    /\ UNCHANGED << db, store, req >>

\* GET /evaluations/{evaluation_id} (182-195): the document, with "id" in
\* the place of "_id".
get_evaluation(r, id) ==
    LET found == Lookup(id)
    IN  Served(r, "get_evaluation", id,
               IF found.status # 200 THEN found
               ELSE Response(200, None,
                      Some([ id  |-> StrOid(ObjectId(id)),
                             doc |-> Val(found.body) ])))

ReportOf_Rerender(doc) ==
    render_html_report([ status         |-> doc.status,
                         agent_card_url |-> doc.agent_card_url,
                         chat_url       |-> doc.chat_url,
                         metrics        |-> doc.metrics ])

\* html = doc.get("html_report"), rendered from the stored fields when the
\* document has none (210-218).
ReportOf(doc) ==
    IF IsSet(doc.html_report)
    THEN Val(doc.html_report)
    ELSE render_html_report([ status         |-> doc.status,
                              agent_card_url |-> doc.agent_card_url,
                              chat_url       |-> doc.chat_url,
                              metrics        |-> doc.metrics ])

\* GET /evaluations/{evaluation_id}/report (198-219): the cached page, or
\* one rendered from the stored fields.
get_evaluation_report(r, id) ==
    LET found == Lookup(id)
    IN  Served(r, "get_evaluation_report", id,
               IF found.status # 200 THEN found
               ELSE Response(200, None, Some(ReportOf(Val(found.body)))))

Next ==
    \/ \E r \in Reqs, body \in Bodies : Evaluate(r, body)
    \/ \E r \in Reqs, t \in AgentTexts \cup ChatTexts : FetchSuccess(r, t)
    \/ \E r \in Reqs, e \in FetchErrs : FetchFailure(r, e)
    \/ \E r \in Reqs : Complete(r)
    \/ \E r \in Reqs : ExceptHTTP(r)
    \/ \E r \in Reqs : ExceptOther(r)
    \/ \E r \in Reqs, id \in IdInputs : get_evaluation(r, id)
    \/ \E r \in Reqs, id \in IdInputs : get_evaluation_report(r, id)

Spec == Init /\ [][Next]_vars

\* ------------------------------------------------ the scorer on its inputs
\* The texts a fetch can return, by length: any agent card up to
\* MaxAgentLen, and chat logs that are empty, short, or around the 1000
\* characters at which chat_factor wraps.
AgentLens == 0..MaxAgentLen
ChatLens == (0..MaxChatLen) \cup ((1000 - MaxChatLen)..(1000 + MaxChatLen))

\* Request 1 after its fetches, about to score (src/main.py 155): its
\* record is stored and running, the texts are the handler's locals.
ScoreInit ==
    \E a \in AgentLens, c \in {None} \cup {Some(n) : n \in ChatLens} :
        LET agent == Url("https", "a")
            chat  == IF IsSet(c) THEN Some(Url("http", "c")) ELSE None
            oid   == NewObjectId(1)
            doc   == Evaluation(StrUrl(agent),
                                IF IsSet(chat) THEN Some(StrUrl(Val(chat)))
                                ELSE None,
                                "running")
        IN  /\ db = TRUE
            /\ store = InsertOne([k \in {} |-> 0], oid, doc)
            /\ pc = [r \in Reqs |-> IF r = 1 THEN "score" ELSE "idle"]
            /\ endpoint = [r \in Reqs |-> IF r = 1 THEN "evaluate" ELSE ""]
            /\ req = [r \in Reqs |-> IF r = 1 THEN Some(Body(agent, chat))
                                     ELSE None]
            /\ evaluation_id = [r \in Reqs |-> None]
            /\ inserted_id = [r \in Reqs |-> IF r = 1 THEN Some(oid) ELSE None]
            /\ attempt = [r \in Reqs |-> 0]
            /\ last_err = [r \in Reqs |-> None]
            /\ slept = [r \in Reqs |-> << >>]
            /\ agent_card_text = [r \in Reqs |-> IF r = 1 THEN Some(a)
                                                 ELSE None]
            /\ chat_text = [r \in Reqs |-> IF r = 1 THEN c ELSE None]
            /\ exc = [r \in Reqs |-> None]
            /\ resp = [r \in Reqs |-> NoResponse]
            /\ calls = [r \in Reqs |->
                          IF r = 1
                          THEN {<<"insert_one", oid>>, <<"get", StrUrl(agent)>>}
                               \cup (IF IsSet(chat)
                                     THEN {<<"get", StrUrl(Val(chat))>>}
                                     ELSE {})
                          ELSE {}]

ScoreNext ==
    \/ \E r \in Reqs : Complete(r)
    \/ \E r \in Reqs : ExceptOther(r)

SpecScore == ScoreInit /\ [][ScoreNext]_vars

\* ------------------------------------------------------------- properties
Oids == DOMAIN store

\* the records a request's insert_one put into the store
Created(r) == { oid \in Oids : <<"insert_one", oid>> \in calls[r] }

Evaluations == { r \in Reqs : endpoint[r] = "evaluate" }
Reads == { r \in Reqs : endpoint[r] \in {"get_evaluation", "get_evaluation_report"} }

\* a URL with a scheme and a host
WellFormedAbsolute(u) == u.scheme # "" /\ u.host # ""

WellFormedBody(body) ==
    /\ WellFormedAbsolute(body.agent_card_url)
    /\ (IsSet(body.chat_url) => WellFormedAbsolute(Val(body.chat_url)))

\* C1: a valid POST /evaluate whose fetches succeed and whose store writes are
\* accepted answers 200 {id, status=completed, metrics}, metrics being the
\* scorer's output for the fetched agent-card text and the fetched chat text
\* (none without chatUrl), and the record of that id is completed with the
\* same metrics, then and ever after.
C1_Scored ==
    \A r \in Reqs : pc[r] = "score" =>
        /\ IsSet(agent_card_text[r])
        /\ IsSet(chat_text[r]) <=> IsSet(Val(req[r]).chat_url)

C1_Stored ==
    \A r \in Evaluations : resp[r].status = 200 =>
        LET out == Val(resp[r].body)
        IN  /\ ObjectIdValid(out.id)
            /\ ObjectId(out.id) \in Created(r)
            /\ out.status = "completed"
            /\ store[ObjectId(out.id)].status = "completed"
            /\ store[ObjectId(out.id)].metrics = Some(out.metrics)

C1_Respond ==
    \A r \in Reqs : pc[r] = "score" /\ pc'[r] = "done" =>
        /\ resp'[r].status = 200
        /\ Val(resp'[r].body).metrics =
              dummy_deepeval(Val(agent_card_text[r]), chat_text[r])

C1_CompletedMatchesScorer ==
    /\ [](C1_Scored /\ C1_Stored)
    /\ [][C1_Respond]_vars

C1_Witness ==
    \E r \in Evaluations :
        /\ resp[r].status = 200
        /\ IsSet(Val(req[r]).chat_url)
        /\ Val(resp[r].body).metrics.safety.toxicity = 37

\* C2: when the agentCardUrl fetch fails on all 3 attempts, the request ends
\* with its record failed and the response 502.
C2_AgentFetchFailure ==
    [][ \A r \in Reqs :
          ( /\ pc[r] = "except_http"
            /\ ~IsSet(agent_card_text[r])
            /\ pc'[r] = "done" )
          => /\ resp'[r].status = 502
             /\ store'[Val(inserted_id[r])].status = "failed" ]_vars

\* C3: a record's status changes only from running to completed or from
\* running to failed; a completed or failed record keeps its status.
C3_StatusMonotonic ==
    [][ \A oid \in Oids :
          /\ oid \in DOMAIN store'
          /\ store[oid].status \in {"completed", "failed"}
                => store'[oid].status = store[oid].status
          /\ store'[oid].status # store[oid].status
                => /\ store[oid].status = "running"
                   /\ store'[oid].status \in {"completed", "failed"} ]_vars

\* C4: no POST /evaluate request finishes, with a response or an error, while
\* the record it inserted is still running.
C4_NoRunningAfterFinish ==
    [][ \A r \in Reqs :
          pc[r] # "done" /\ pc'[r] = "done" /\ IsSet(inserted_id[r])
          => store'[Val(inserted_id[r])].status # "running" ]_vars

\* C5: every record has metrics and html_report both set or both unset, and
\* a completed record has both: the completing update writes the three
\* fields at once.
C5_MetricsAndReportTogether ==
    \A oid \in Oids :
        /\ IsSet(store[oid].metrics) <=> IsSet(store[oid].html_report)
        /\ store[oid].status = "completed" =>
              IsSet(store[oid].metrics) /\ IsSet(store[oid].html_report)

C5_Witness == \E oid \in Oids : store[oid].status = "completed"

\* C6: a record whose error field is set has status failed.
C6_ErrorOnlyWhenFailed ==
    \A oid \in Oids : IsSet(store[oid].error) => store[oid].status = "failed"

C6_Witness == \E oid \in Oids : IsSet(store[oid].error)

\* C7: a record whose metrics or html_report is set has status completed.
C7_MetricsOnlyWhenCompleted ==
    \A oid \in Oids :
        IsSet(store[oid].metrics) \/ IsSet(store[oid].html_report)
            => store[oid].status = "completed"

\* C8: a POST /evaluate whose agentCardUrl or chatUrl is not a well-formed
\* absolute URL is rejected with the validation error, having inserted no
\* record and attempted no fetch.
C8_InvalidUrlRejected ==
    \A r \in Evaluations : ~WellFormedBody(Val(req[r])) =>
        /\ pc[r] = "done"
        /\ resp[r] = ValidationError
        /\ calls[r] = {}
        /\ Created(r) = {}

C8_Witness ==
    /\ db
    /\ \E r \in Evaluations :
          /\ WellFormedAbsolute(Val(req[r]).agent_card_url)
          /\ ~WellFormedBody(Val(req[r]))
          /\ pc[r] = "done"
    /\ \E r \in Evaluations : ~WellFormedAbsolute(Val(req[r]).agent_card_url)

\* C9 as stated: with the store not configured every POST /evaluate and every
\* read answers 500, with no store call and no fetch.
C9_AlwaysServerError ==
    ~db => \A r \in Reqs : pc[r] = "done" =>
              /\ resp[r].status = 500
              /\ calls[r] = {}

\* C9 as amended: with the store not configured every read, whatever the
\* shape of its id, and every POST /evaluate whose body passes validation
\* answers 500 "Database not configured" with no store call and no fetch; a
\* POST /evaluate whose body fails validation gets the validation error.
C9_ServerErrorAfterValidation ==
    ~db => /\ Oids = {}
           /\ \A r \in Reqs : pc[r] = "done" =>
                /\ calls[r] = {}
                /\ resp[r] =
                     IF r \in Evaluations /\ ~EvaluationRequest(Val(req[r]))
                     THEN ValidationError
                     ELSE HTTPException(500, <<"Database not configured">>)

C9_Witness ==
    /\ ~db
    /\ \E r \in Reads : pc[r] = "done" /\ ~ObjectIdValid(Val(evaluation_id[r]))
    /\ \E r \in Evaluations : pc[r] = "done" /\ EvaluationRequest(Val(req[r]))

\* C10: an exception other than a fetch failure raised while scoring,
\* rendering or writing the completing update leaves the record failed with
\* the exception's message in error, and the response is 500 "Evaluation
\* failed: <message>".
C10_UnexpectedErrorRecorded ==
    [][ \A r \in Reqs :
          pc[r] = "except_other" /\ pc'[r] = "done"
          => /\ store'[Val(inserted_id[r])].status = "failed"
             /\ store'[Val(inserted_id[r])].error = exc[r]
             /\ resp'[r] = HTTPException(500, <<"Evaluation failed", Val(exc[r])>>) ]_vars

\* C11: when a fetch of either URL has exhausted its retries, the update that
\* marks the record failed changes nothing but the status: error, metrics and
\* html_report of the record stay unset.
C11_FetchFailureSetsOnlyStatus ==
    [][ \A r \in Reqs :
          pc[r] = "except_http" /\ pc'[r] = "done"
          => LET oid == Val(inserted_id[r])
             IN  /\ store' \in { store,
                                 [store EXCEPT ![oid].status = "failed"] }
                 /\ ~IsSet(store'[oid].error)
                 /\ ~IsSet(store'[oid].metrics)
                 /\ ~IsSet(store'[oid].html_report) ]_vars

C11_Witness ==
    \E r \in Evaluations :
        /\ pc[r] = "done"
        /\ resp[r].status = 502
        /\ \E oid \in Created(r) :
              store[oid].status = "failed" /\ ~IsSet(store[oid].error)

\* a step in which request r is served by the read endpoint name
ReadStep(r, name) == pc[r] = "idle" /\ pc'[r] = "done" /\ endpoint'[r] = name

\* C12: the html_report a record got at completion never changes, and every
\* later GET /evaluations/{id}/report of that record answers 200 with exactly
\* that page, whatever else has happened in between.
C12_CachedReportKept ==
    \A oid \in Oids :
        IsSet(store[oid].html_report) =>
            /\ oid \in DOMAIN store'
            /\ store'[oid].html_report = store[oid].html_report

C12_CachedReportServed ==
    \A r \in Reqs :
        ReadStep(r, "get_evaluation_report") =>
            LET id == Val(evaluation_id'[r])
            IN  ( /\ db
                  /\ ObjectIdValid(id)
                  /\ ObjectId(id) \in Oids
                  /\ IsSet(store[ObjectId(id)].html_report) )
                => resp'[r] = Response(200, None, store[ObjectId(id)].html_report)

C12_ReportReadReturnsCachedHtml ==
    [][C12_CachedReportKept /\ C12_CachedReportServed]_vars

C12_Witness ==
    \E r \in Reqs :
        /\ endpoint[r] = "get_evaluation_report"
        /\ resp[r].status = 200
        /\ ObjectId(Val(evaluation_id[r])) \in Oids
        /\ IsSet(store[ObjectId(Val(evaluation_id[r]))].html_report)
        /\ resp[r].body = store[ObjectId(Val(evaluation_id[r]))].html_report

\* C13: GET /evaluations/{id} and GET /evaluations/{id}/report leave the
\* store as it was, whatever they answer; a report rendered for a record
\* without html_report is returned and not written back.
C13_ReadsLeaveStoreUnchanged ==
    [][ \A r \in Reqs :
          ReadStep(r, "get_evaluation") \/ ReadStep(r, "get_evaluation_report")
          => store' = store ]_vars

C13_Witness ==
    \E r \in Reqs :
        /\ endpoint[r] = "get_evaluation_report"
        /\ resp[r].status = 200
        /\ ~IsSet(store[ObjectId(Val(evaluation_id[r]))].html_report)
        /\ Val(resp[r].body).status = "running"

\* an identifier of valid shape: 24 hexadecimal digits
ValidShape(id) == id.len = 24 /\ id.chars \in {"lowerhex", "upperhex"}

\* C14: with the store configured, GET /evaluations/{id} answers 400 for an
\* id of invalid shape, 404 for a well-formed id no record has, and 200 with
\* the whole record, id included, exactly when the record exists; GET
\* /evaluations/{id}/report answers 400 and 404 in the same cases.
C14_ReadStatus ==
    \A r \in Reqs :
        ReadStep(r, "get_evaluation") \/ ReadStep(r, "get_evaluation_report") =>
            LET id == Val(evaluation_id'[r])
            IN  db =>
                /\ resp'[r].status =
                      IF ~ValidShape(id) THEN 400
                      ELSE IF id.key \notin Oids THEN 404 ELSE 200
                /\ resp'[r].status = 400 =>
                      resp'[r] = HTTPException(400, <<"Invalid evaluation id">>)
                /\ resp'[r].status = 404 =>
                      resp'[r] = HTTPException(404, <<"Evaluation not found">>)
                /\ resp'[r].status = 200 /\ endpoint'[r] = "get_evaluation" =>
                      Val(resp'[r].body) =
                         [ id  |-> [len |-> 24, chars |-> "lowerhex", key |-> id.key],
                           doc |-> store[id.key] ]

C14_ReadOutcomes == [][C14_ReadStatus]_vars

C14_Witness ==
    /\ db
    /\ \E r \in Reqs :
          /\ endpoint[r] = "get_evaluation"
          /\ resp[r].status = 200
          /\ Val(evaluation_id[r]).chars = "upperhex"
          /\ Val(resp[r].body).doc.status = "running"

RECURSIVE SumSeq(_)
SumSeq(s) == IF s = << >> THEN 0 ELSE s[1] + SumSeq(Tail(s))

\* requests inside a fetch_with_retries call, or just out of it by its raise
Fetching == { r \in Reqs : pc[r] \in {"fetch_agent", "fetch_chat", "except_http"} }

\* The time since the call began at which its latest attempt is made, the
\* attempts themselves taking no time.
AttemptTime(r) == SumSeq(slept[r])

\* C15 as stated: the three attempts of a fetch that fails are made at 0s,
\* 0.8s and 1.6s.
C15_AttemptsAt_0_08_16 ==
    \A r \in Fetching : AttemptTime(r) = << 0, 8, 16 >>[Len(slept[r]) + 1]

\* C15 as amended: the three attempts are made at 0s, 0.8s and 2.4s, the
\* waits between them being 0.8s and 1.6s.
C15_AttemptsAt_0_08_24 ==
    \A r \in Fetching :
        /\ Len(slept[r]) < 3
        /\ AttemptTime(r) = << 0, 8, 24 >>[Len(slept[r]) + 1]
        /\ pc[r] = "except_http" => Len(slept[r]) = 2

C15_Witness ==
    \E r \in Reqs : pc[r] = "except_http" /\ AttemptTime(r) = 24

\* the URL text of the request that the fetch in progress is for
RequestedUrl(r) ==
    LET u == IF pc[r] = "fetch_agent" THEN Val(req[r]).agent_card_url
             ELSE Val(Val(req[r]).chat_url)
    IN  [scheme |-> u.scheme, host |-> IF u.host = "A" THEN "a" ELSE u.host]

\* C16: a fetch makes at most 3 GET attempts; a successful attempt ends it
\* and its body text is what the fetch returns; it fails only when the third
\* attempt has failed, with a 502 that carries the URL and the message of
\* that last failure.
C16_Attempt ==
    \A r \in Reqs :
        pc[r] \in {"fetch_agent", "fetch_chat"} =>
            /\ attempt[r] < 3
            /\ \A t \in AgentTexts \cup ChatTexts :
                  FetchSuccess(r, t) =>
                     /\ pc'[r] \notin {pc[r], "except_http"}
                     /\ Some(t) = IF pc[r] = "fetch_agent"
                                  THEN agent_card_text'[r] ELSE chat_text'[r]
                     /\ exc'[r] = None
            /\ \A e \in FetchErrs :
                  FetchFailure(r, e) =>
                     IF attempt[r] < 2
                     THEN /\ pc'[r] = pc[r]
                          /\ attempt'[r] = attempt[r] + 1
                          /\ exc'[r] = None
                     ELSE /\ pc'[r] = "except_http"
                          /\ exc'[r] = Some([ status |-> 502,
                                              detail |-> Some(<<"Failed to fetch",
                                                                RequestedUrl(r), e>>),
                                              body   |-> None ])

C16_FetchAttempts == [][C16_Attempt]_vars

C16_Witness ==
    \E r \in Reqs :
        /\ pc[r] = "except_http"
        /\ IsSet(agent_card_text[r])
        /\ Val(Val(exc[r]).detail)[3] = "status 500"

\* the waits of a fetch after its first n failed attempts: 0.8s * 2^k after
\* failed attempt k
Waits(n) == [k \in 1..n |-> 8 * (2 ^ (k - 1))]

\* C17: a fetch waits only after a failed attempt that is not the last one,
\* for 0.8s * 2^k after failed attempt k: it has not waited before its first
\* attempt, it does not wait after a successful attempt nor after the third
\* failed one, so a fetch that fails has waited exactly twice.
C17_Waited ==
    \A r \in Fetching :
        slept[r] = Waits(IF pc[r] = "except_http" THEN 3 - 1 ELSE attempt[r])

C17_Wait ==
    \A r \in Reqs :
        pc[r] \in {"fetch_agent", "fetch_chat"} =>
            /\ \A t \in AgentTexts \cup ChatTexts :
                  FetchSuccess(r, t) => Len(slept'[r]) <= Len(slept[r])
            /\ \A e \in FetchErrs :
                  FetchFailure(r, e) =>
                     slept'[r] = IF attempt[r] = 3 - 1 THEN slept[r]
                                 ELSE Append(slept[r], 8 * (2 ^ attempt[r]))

C17_BackoffOnlyBetweenAttempts == [](C17_Waited) /\ [][C17_Wait]_vars

C17_Witness ==
    \E r \in Reqs : pc[r] = "except_http" /\ slept[r] = << 8, 16 >>

\* the GETs among the I/O calls of a request
Gets(r) == { c \in calls[r] : c[1] = "get" }

\* the two URLs of the request, as the handler passes them to the fetcher
AgentCardUrl(r) ==
    LET u == Val(req[r]).agent_card_url
    IN  [scheme |-> u.scheme, host |-> IF u.host = "A" THEN "a" ELSE u.host]
HasChatUrl(r) == IsSet(Val(req[r]).chat_url)
ChatUrl(r) ==
    LET u == Val(Val(req[r]).chat_url)
    IN  [scheme |-> u.scheme, host |-> IF u.host = "A" THEN "a" ELSE u.host]

InFlight == { r \in Reqs : pc[r] \notin {"idle", "done"} }

\* C18, the states: the chat fetch is under way only once the agent card has
\* been returned; while the handler runs, a GET of the chat URL (where it
\* differs from the agent card's) has been made only if the agent card has
\* been returned; a fetch is on one of its 3 attempts; a request answered
\* with the 502 of the agent-card fetch has made no GET of its chat URL.
C18_Ordered ==
    /\ \A r \in InFlight :
          /\ pc[r] = "fetch_chat" => IsSet(agent_card_text[r]) /\ HasChatUrl(r)
          /\ pc[r] \in {"fetch_agent", "fetch_chat"} => attempt[r] < 3
          /\ pc[r] = "fetch_agent" => ~IsSet(agent_card_text[r])
          /\ ~IsSet(agent_card_text[r]) =>
                Gets(r) \subseteq {<<"get", AgentCardUrl(r)>>}
          /\ Gets(r) \subseteq
                {<<"get", AgentCardUrl(r)>>} \cup
                (IF HasChatUrl(r) THEN {<<"get", ChatUrl(r)>>} ELSE {})
    /\ \A r \in Evaluations :
          /\ pc[r] = "done"
          /\ resp[r].status = 502
          /\ Val(resp[r].detail)[2] = AgentCardUrl(r)
          /\ HasChatUrl(r) /\ ChatUrl(r) # AgentCardUrl(r)
          => <<"get", ChatUrl(r)>> \notin calls[r]

\* C18, the steps: a GET is made only by a fetch, each GET takes the fetch to
\* its next attempt or ends it, the agent-card fetch is entered only when the
\* handler starts and the chat fetch only from the agent-card fetch, and a
\* fetch that has failed leads to the response only. So a request makes at
\* most 3 GETs per URL, 3 when the agent-card fetch fails and 6 in all.
C18_Step ==
    \A r \in Reqs :
        /\ Gets(r) \subseteq { c \in calls'[r] : c[1] = "get" }
        /\ pc[r] \notin {"fetch_agent", "fetch_chat"} =>
              { c \in calls'[r] : c[1] = "get" } = Gets(r)
        /\ pc'[r] = "fetch_agent" => pc[r] \in {"idle", "fetch_agent"}
        /\ pc'[r] = "fetch_chat" => pc[r] \in {"fetch_agent", "fetch_chat"}
        /\ pc[r] = "except_http" => pc'[r] \in {"except_http", "done"}
        /\ pc[r] = "done" => pc'[r] = "done"
        /\ pc[r] \in {"fetch_agent", "fetch_chat"} /\ pc'[r] = pc[r] =>
              attempt'[r] \in {attempt[r], attempt[r] + 1}
        /\ pc[r] \in {"fetch_agent", "fetch_chat"}
              /\ pc'[r] = pc[r] /\ attempt'[r] = attempt[r] =>
              calls'[r] = calls[r]

C18_FetchesOrdered == [](C18_Ordered) /\ [][C18_Step]_vars

C18_Witness ==
    \E r \in Evaluations :
        /\ pc[r] = "done"
        /\ resp[r].status = 502
        /\ Val(resp[r].detail)[2] = AgentCardUrl(r)
        /\ HasChatUrl(r)
        /\ Gets(r) = {<<"get", AgentCardUrl(r)>>}

Inserts(r) == { c \in calls[r] : c[1] = "insert_one" }
Updates(r) == { c \in calls[r] : c[1] = "update_one" }

\* C19, the states: whatever the interleaving, a request makes at most one
\* insert_one, exactly one once its handler is past the insert, no two
\* requests insert the same id, every record has exactly one creating
\* request, and a request calls update_one on the id it inserted only.
C19_OwnRecordOnly ==
    /\ \A r \in Reqs :
          /\ Cardinality(Inserts(r)) <= 1
          /\ Cardinality(Created(r)) <= 1
          /\ r \in InFlight =>
                /\ IsSet(inserted_id[r])
                /\ Inserts(r) = {<<"insert_one", Val(inserted_id[r])>>}
                /\ Created(r) = {Val(inserted_id[r])}
          /\ \A c \in Updates(r) : <<"insert_one", c[2]>> \in Inserts(r)
          /\ r \notin Evaluations => Inserts(r) = {} /\ Updates(r) = {}
    /\ \A r1, r2 \in Reqs : r1 # r2 => Inserts(r1) \cap Inserts(r2) = {}
    /\ \A oid \in Oids : Cardinality({ r \in Reqs : oid \in Created(r) }) = 1

\* C19, the steps: a step that adds a record or changes one is a step of the
\* request that inserted it, so what a record ends up holding is decided by
\* its creating request alone.
C19_WrittenByCreator ==
    \A oid \in DOMAIN store' :
        (oid \notin DOMAIN store \/ store'[oid] # store[oid]) =>
            \E r \in Reqs :
                /\ pc[r] # pc'[r]
                /\ endpoint'[r] = "evaluate"
                /\ <<"insert_one", oid>> \in calls'[r]
                /\ \A q \in Reqs \ {r} : pc'[q] = pc[q] /\ calls'[q] = calls[q]

C19_SingleWriterPerRecord ==
    [](C19_OwnRecordOnly) /\ [][C19_WrittenByCreator]_vars

C19_Witness ==
    \E r1, r2 \in Evaluations :
        /\ r1 # r2
        /\ pc[r1] = "done" /\ pc[r2] = "done"
        /\ \E o1 \in Created(r1), o2 \in Created(r2) :
              /\ o1 # o2
              /\ store[o1].status = "completed"
              /\ store[o2].status = "failed"

\* a score in hundredths, clamped to [0.00, 1.00]
Clamp(v) == IF v < 0 THEN 0 ELSE IF v > 100 THEN 100 ELSE v

\* the scores for an agent card of length a and a chat factor f
Expected(a, f) ==
    LET base == IF a < 1 THEN 1 ELSE a
    IN  [ mcp_compliance |->
            [ spec_alignment     |-> Clamp(base % 100),
              tools_schema_valid |-> Clamp((base \div 3) % 100),
              errors             |-> << >> ],
          safety |->
            [ toxicity    |-> Clamp((base + f) % 100),
              compliance  |-> Clamp(((base \div 7) + (f \div 5)) % 100),
              harmfulness |-> Clamp((base \div 11) % 100) ],
          chatbot |->
            [ relevance   |-> Clamp(((base \div 13) + (f \div 3)) % 100),
              helpfulness |-> Clamp((base \div 5) % 100),
              factuality  |-> Clamp((base \div 9) % 100),
              latency     |-> 100 + (base % 50) ] ]

Hundredths == 0..100

\* C20: for every agent-card length and every chat text (absent, empty or of
\* any length) the metrics the request is answered with are the formula's, on
\* base = max(1, length of the agent card) and chatFactor = length of the
\* chat text mod 1000 (0 when absent); each of the eight scores is a whole
\* number of hundredths in [0.00, 1.00] and latency is 100 + base mod 50.
C20_Scored ==
    \A r \in Reqs :
        pc[r] = "score" /\ pc'[r] = "done" /\ resp'[r].status = 200 =>
            LET m == Val(resp'[r].body).metrics
                a == Val(agent_card_text[r])
                f == IF IsSet(chat_text[r]) THEN Val(chat_text[r]) % 1000 ELSE 0
            IN  /\ m = Expected(a, f)
                /\ m = Val(store'[Val(inserted_id[r])].metrics)
                /\ { m.mcp_compliance.spec_alignment,
                     m.mcp_compliance.tools_schema_valid,
                     m.safety.toxicity, m.safety.compliance,
                     m.safety.harmfulness, m.chatbot.relevance,
                     m.chatbot.helpfulness, m.chatbot.factuality }
                      \subseteq Hundredths
                /\ m.chatbot.latency = 100 + ((IF a = 0 THEN 1 ELSE a) % 50)

C20_ScorerFormula == [][C20_Scored]_vars

\* the example: length 130 without chat gives 0.30 and 0.43
C20_Witness ==
    \E r \in Evaluations :
        /\ pc[r] = "done"
        /\ resp[r].status = 200
        /\ ~IsSet(Val(req[r]).chat_url)
        /\ Val(resp[r].body).metrics.mcp_compliance.spec_alignment = 30
        /\ Val(resp[r].body).metrics.mcp_compliance.tools_schema_valid = 43
        /\ Val(resp[r].body).metrics.chatbot.latency = 130
        /\ Val(resp[r].body).metrics.safety.toxicity = 30
====
